---- MODULE Spec2Model ----
(***************************************************************************)
(* A model of the regex-driven lexer of lexer.js: the Lexer object with    *)
(* its rule compiler (compile) and its scanning engine (lex).              *)
(*                                                                         *)
(* JavaScript strings are sequences of one-character strings, so that the  *)
(* text scanners of the source (its three regular expressions, its string  *)
(* escaping and its number formatting) are computed character by           *)
(* character, the way the source computes them.                            *)
(***************************************************************************)
EXTENDS Integers, Sequences, FiniteSets

VARIABLES
  rules,           \* the rule table handed to the constructor (the caller's own array)
  _rules,          \* this._rules: the compiled rule list (Undefined before compile)
  _languageRegex,  \* this._languageRegex: the composite pattern (Undefined before compile)
  state,           \* this.state: the scan state {line, offset, updated}
  text,            \* lex's argument
  tokens,          \* lex's local token list
  startIndex,      \* lex's local: end of the previous match
  pending,         \* the matches String.replace still has to hand to the callback
  pc,              \* "idle" or "scanning" (inside text.replace)
  console,         \* what the calls since the last lex() start logged
  result,          \* the outcome of the last call of compile() or lex()
  fired            \* history: one record per match the callback of lex() processed

vars == <<rules, _rules, _languageRegex, state, text, tokens, startIndex,
          pending, pc, console, result, fired>>

(***************************************************************************)
(* JavaScript values.                                                      *)
(***************************************************************************)
Undefined == [t |-> "undefined"]
Null == [t |-> "null"]
Num(n) == [t |-> "number", v |-> n]
Bool(b) == [t |-> "boolean", v |-> b]
Str(s) == [t |-> "string", v |-> s]
RegExpOf(src) == [t |-> "regexp", v |-> src]
Fn(id) == [t |-> "function", v |-> id]
Arr(items) == [t |-> "array", v |-> items]
RuleSpec(name, pattern, callback, discard) ==
  [t |-> "object", name |-> name, pattern |-> pattern,
   callback |-> callback, discard |-> discard]

\* ToBoolean: what `!x`, `x && ...` and `if (x)` read.
Truthy(x) ==
  CASE x.t \in {"undefined", "null"} -> FALSE
    [] x.t = "number" -> x.v # 0
    [] x.t = "boolean" -> x.v
    [] x.t = "string" -> Len(x.v) > 0
    [] OTHER -> TRUE

\* rule.name, rule.pattern, ...: a property read; a number or an array has none of them.
Get(x, field) ==
  IF x.t = "object"
    THEN CASE field = "name" -> x.name
           [] field = "pattern" -> x.pattern
           [] field = "callback" -> x.callback
           [] field = "discard" -> x.discard
    ELSE Undefined

(***************************************************************************)
(* Numbers and strings.                                                    *)
(***************************************************************************)
Digits == <<"0", "1", "2", "3", "4", "5", "6", "7", "8", "9">>

IsDigit(c) == \E d \in 1..10 : Digits[d] = c

DigitVal(c) == (CHOOSE d \in 1..10 : Digits[d] = c) - 1

\* Number.prototype.toString of a natural number.
RECURSIVE NumberToString(_)
NumberToString(n) ==
  IF n < 10 THEN <<Digits[n + 1]>>
  ELSE NumberToString(n \div 10) \o <<Digits[(n % 10) + 1]>>

\* parseInt(digits, radix) of a run of decimal digits: the value of the longest
\* prefix whose digits are below the radix, -1 (NaN) when that prefix is empty.
RECURSIVE ParseDigits(_, _, _, _)
ParseDigits(s, i, radix, acc) ==
  IF i > Len(s) \/ DigitVal(s[i]) >= radix THEN acc
  ELSE ParseDigits(s, i + 1, radix, (IF acc < 0 THEN 0 ELSE acc) * radix + DigitVal(s[i]))

parseInt(s, radix) == ParseDigits(s, 1, radix, -1)

\* ToString of a value used as a string operand or as a replacement.
ToStringJS(x) ==
  CASE x.t = "undefined" -> <<"u", "n", "d", "e", "f", "i", "n", "e", "d">>
    [] x.t = "null" -> <<"n", "u", "l", "l">>
    [] x.t = "number" -> IF x.v < 0 THEN <<"N", "a", "N">> ELSE NumberToString(x.v)
    [] x.t = "string" -> x.v

\* String.prototype.format: it calls this.replace and drops the result; the function
\* has no return statement, so every call evaluates to undefined.
StringFormat(this, args) == Undefined

RECURSIVE Flatten(_)
Flatten(ss) == IF ss = <<>> THEN <<>> ELSE Head(ss) \o Flatten(Tail(ss))

\* A slice that takes the element at index `to` as well.
SliceThrough(s, from, to) ==
  IF to < from THEN <<>>
  ELSE SubSeq(s, from + 1, IF to + 1 > Len(s) THEN Len(s) ELSE to + 1)

\* s.slice(from, to) with 0-based indices, as JavaScript counts.
Slice(s, from, to) ==
  IF to <= from THEN <<>>
  ELSE SubSeq(s, from + 1, IF to > Len(s) THEN Len(s) ELSE to)

(***************************************************************************)
(* Rule: numCaptures and updateReferences.                                 *)
(***************************************************************************)
\* `.` of a regular expression matches every character but a line terminator.
IsLineTerminator(c) == c \in {"\n", "\r"}

\* An escaped character, /\\./, at position i.
EscapeAt(s, i) ==
  /\ i + 1 <= Len(s)
  /\ s[i] = "\\"
  /\ ~IsLineTerminator(s[i + 1])

\* (?:\\.|[^\]])*\] (need = 0) or (?:\\.|[^\]])+\] (need = 1) from position i, as
\* the backtracking matcher finds it: greedy, the escape alternative first. The
\* position after the closing bracket, 0 when there is no match.
RECURSIVE ClassItems(_, _, _)
ClassItems(s, i, need) ==
  LET viaEscape == IF EscapeAt(s, i) THEN ClassItems(s, i + 2, 0) ELSE 0
      viaOther == IF i <= Len(s) /\ s[i] # "]" THEN ClassItems(s, i + 1, 0) ELSE 0
      close == IF need = 0 /\ i <= Len(s) /\ s[i] = "]" THEN i + 1 ELSE 0
  IN  IF viaEscape # 0 THEN viaEscape
      ELSE IF viaOther # 0 THEN viaOther
      ELSE close

\* A bracketed class at position i: the position after it, 0 when there is none.
ClassAt(s, i, need) ==
  IF i <= Len(s) /\ s[i] = "[" THEN ClassItems(s, i + 1, need) ELSE 0

\* (\() at position i: the group without its lookahead guard.
CaptureParenAtUnguarded(s, i) ==
  /\ i <= Len(s)
  /\ s[i] = "("

\* (\((?!\?[!:=])) at position i.
CaptureParenAt(s, i) ==
  /\ i <= Len(s)
  /\ s[i] = "("
  /\ ~(i + 2 <= Len(s) /\ s[i + 1] = "?" /\ s[i + 2] \in {"!", ":", "="})

\* The replace callback of numCaptures over every match of capture_exp from
\* position i on: the number of matches whose first group took part.
RECURSIVE CountCaptures(_, _)
CountCaptures(s, i) ==
  IF i > Len(s) THEN 0
  ELSE IF EscapeAt(s, i) THEN CountCaptures(s, i + 2)
  ELSE IF ClassAt(s, i, 0) # 0 THEN CountCaptures(s, ClassAt(s, i, 0))
  ELSE IF CaptureParenAt(s, i) THEN 1 + CountCaptures(s, i + 1)
  ELSE CountCaptures(s, i + 1)

\* new Rule(name, pattern, callback, discard).
Rule(name, pattern, callback, discard) ==
  [name |-> name, pattern |-> pattern, callback |-> callback,
   discard |-> discard, _numCaptures |-> Undefined]

\* What Rule.numCaptures() returns: the stored count when it is truthy, a fresh
\* count of the present pattern text otherwise.
numCaptures(r) ==
  IF Truthy(r._numCaptures) THEN r._numCaptures.v ELSE CountCaptures(r.pattern, 1)

\* The rule after a call of numCaptures(): the count is stored.
AfterNumCaptures(r) == [r EXCEPT !._numCaptures = Num(numCaptures(r))]

\* The end of the digit run that starts at position i.
RECURSIVE DigitRunEnd(_, _)
DigitRunEnd(s, i) ==
  IF i <= Len(s) /\ IsDigit(s[i]) THEN DigitRunEnd(s, i + 1) ELSE i

\* The matches of backref_exp without its first alternative: a class is not
\* skipped.
RECURSIVE BackrefPiecesNoClass(_, _)
BackrefPiecesNoClass(s, i) ==
  IF i > Len(s) THEN <<>>
  ELSE IF i + 1 <= Len(s) /\ s[i] = "\\" /\ ~IsDigit(s[i + 1])
    THEN <<[p1 |-> FALSE, txt |-> SubSeq(s, i, i + 1)]>> \o BackrefPiecesNoClass(s, i + 2)
  ELSE IF i + 1 <= Len(s) /\ s[i] = "\\" /\ IsDigit(s[i + 1])
    THEN <<[p1 |-> TRUE, txt |-> SubSeq(s, i + 1, DigitRunEnd(s, i + 1) - 1)]>>
         \o BackrefPiecesNoClass(s, DigitRunEnd(s, i + 1))
  ELSE <<[p1 |-> FALSE, txt |-> <<s[i]>>]>> \o BackrefPiecesNoClass(s, i + 1)

\* The matches of backref_exp from position i on, with the text between them: a
\* sequence of pieces [p1, txt] that covers the pattern text, p1 = TRUE for a
\* match of the third alternative (txt is then the digit run, the first group).
RECURSIVE BackrefPieces(_, _)
BackrefPieces(s, i) ==
  IF i > Len(s) THEN <<>>
  ELSE IF ClassAt(s, i, 1) # 0
    THEN <<[p1 |-> FALSE, txt |-> SubSeq(s, i, ClassAt(s, i, 1) - 1)]>>
         \o BackrefPieces(s, ClassAt(s, i, 1))
  ELSE IF i + 1 <= Len(s) /\ s[i] = "\\" /\ ~IsDigit(s[i + 1])
    THEN <<[p1 |-> FALSE, txt |-> SubSeq(s, i, i + 1)]>> \o BackrefPieces(s, i + 2)
  ELSE IF i + 1 <= Len(s) /\ s[i] = "\\" /\ IsDigit(s[i + 1])
    THEN <<[p1 |-> TRUE, txt |-> SubSeq(s, i + 1, DigitRunEnd(s, i + 1) - 1)]>>
         \o BackrefPieces(s, DigitRunEnd(s, i + 1))
  ELSE <<[p1 |-> FALSE, txt |-> <<s[i]>>]>> \o BackrefPieces(s, i + 1)

\* The replacement without the 1 that stands for the group around the whole rule.
BackrefReplacementUnwrapped(p1, captures, offset) ==
  LET backref == parseInt(p1, 10)
  IN  IF backref > 0 /\ backref <= captures
        THEN <<"\\">> \o NumberToString(backref + offset)
        ELSE ToStringJS(Num(parseInt(p1, 8)))

\* The replace callback of updateReferences for a match of the third alternative.
BackrefReplacement(p1, captures, offset) ==
  LET backref == parseInt(p1, 10)
  IN  IF backref > 0 /\ backref <= captures
        THEN <<"\\">> \o NumberToString(backref + offset + 1)
        ELSE ToStringJS(Num(parseInt(p1, 8)))

\* Rule.updateReferences(offset): the rule with its pattern text rewritten. The
\* callback asks numCaptures() for each digit escape above 0, while this.pattern
\* is still the text being scanned.
updateReferences(r, offset) ==
  LET pieces == BackrefPieces(r.pattern, 1)
      asked == \E k \in 1..Len(pieces) :
                 pieces[k].p1 /\ parseInt(pieces[k].txt, 10) > 0
      r1 == IF asked THEN AfterNumCaptures(r) ELSE r
      out == [k \in 1..Len(pieces) |->
                IF pieces[k].p1
                  THEN BackrefReplacement(pieces[k].txt, numCaptures(r), offset)
                  ELSE pieces[k].txt]
  IN  [r1 EXCEPT !.pattern = Flatten(out)]

(***************************************************************************)
(* Lexer.compile.                                                          *)
(***************************************************************************)
\* new Lexer.ValidationError(rule, msg): the second definition of the file is the
\* one in force; it stores its two arguments.
ValidationError(rule, msg) ==
  [name |-> "ValidationError", rule |-> rule, message |-> msg]

\* rule.pattern.replace(/[-.*+?^$()\[\]{}\\]/g, '\\$1'): the expression has no group,
\* so $1 stands for itself and each metacharacter becomes the three characters \$1.
IsMetaCharacter(c) ==
  c \in {"-", ".", "*", "+", "?", "^", "$", "(", ")", "[", "]", "{", "}", "\\"}

EscapeLiteral(s) ==
  Flatten([k \in 1..Len(s) |->
             IF IsMetaCharacter(s[k]) THEN <<"\\", "$", "1">> ELSE <<s[k]>>])

\* .replace(/&/g, '&amp;').replace(/</g, '&lt;').replace(/>/g, '&gt;')
EscapeEntities(s) ==
  Flatten([k \in 1..Len(s) |->
             CASE s[k] = "&" -> <<"&", "a", "m", "p", ";">>
               [] s[k] = "<" -> <<"&", "l", "t", ";">>
               [] s[k] = ">" -> <<"&", "g", "t", ";">>
               [] OTHER -> <<s[k]>>])

\* The pattern text '<br\\s*\\/?\\s*>' of the HTML_BREAK rule.
HtmlBreakPattern == <<"<", "b", "r", "\\", "s", "*", "\\", "/", "?", "\\", "s", "*", ">">>

\* The string literal '(<br\s*\/?\s*>)' that opens the composite pattern: in a string
\* literal \s is the letter s and \/ is the slash.
HtmlBreakGroup == <<"(", "<", "b", "r", "s", "*", "/", "?", "s", "*", ">", ")">>

HtmlBreakRule == Rule("HTML_BREAK", HtmlBreakPattern, Fn("HTML_BREAK"), TRUE)

\* The checks of a rule with the position counted from 0, as the loop counts.
RuleFaultFromZero(rule, position) ==
  LET name == Get(rule, "name")
      pattern == Get(rule, "pattern")
      callback == Get(rule, "callback")
  IN  IF ~Truthy(rule)
        THEN ValidationError(Num(position - 1), Str("invalid rule"))
      ELSE IF ~Truthy(name)
        THEN ValidationError(Num(position - 1), Str("missing name"))
      ELSE IF name.t # "string" \/ Len(name.v) = 0
        THEN ValidationError(Num(position - 1), StringFormat("invalid name \"{1}\"", <<name>>))
      ELSE IF ~Truthy(pattern)
        THEN ValidationError(name, Str("missing pattern"))
      ELSE IF ~(pattern.t = "regexp" \/ pattern.t = "string")
        THEN ValidationError(name, StringFormat("invalid pattern \"{1}\"", <<pattern>>))
      ELSE IF Truthy(callback) /\ callback.t # "function"
        THEN ValidationError(name, StringFormat("invalid callback \"{1}\"", <<callback>>))
      ELSE Undefined

\* The checks compile() makes of the rule at a 1-based position: the error it
\* throws, Undefined when the rule passes them all.
RuleFault(rule, position) ==
  LET name == Get(rule, "name")
      pattern == Get(rule, "pattern")
      callback == Get(rule, "callback")
  IN  IF ~Truthy(rule)
        THEN ValidationError(Num(position), Str("invalid rule"))
      ELSE IF ~Truthy(name)
        THEN ValidationError(Num(position), Str("missing name"))
      ELSE IF name.t # "string" \/ Len(name.v) = 0
        THEN ValidationError(Num(position), StringFormat("invalid name \"{1}\"", <<name>>))
      ELSE IF ~Truthy(pattern)
        THEN ValidationError(name, Str("missing pattern"))
      ELSE IF ~(pattern.t = "regexp" \/ pattern.t = "string")
        THEN ValidationError(name, StringFormat("invalid pattern \"{1}\"", <<pattern>>))
      ELSE IF Truthy(callback) /\ callback.t # "function"
        THEN ValidationError(name, StringFormat("invalid callback \"{1}\"", <<callback>>))
      ELSE Undefined

\* The text a rule's pattern is compiled from: the source of a regular expression,
\* a literal string with its metacharacters escaped; then the entities.
Expression(pattern) ==
  EscapeEntities(IF pattern.t = "regexp" THEN pattern.v ELSE EscapeLiteral(pattern.v))

\* The loop of compile() from rule i on (1-based here, i - 1 in the source), with
\* the rules pushed so far: what is thrown, this._rules and overallExp at the end.
RECURSIVE CompileLoop(_, _, _, _, _)
CompileLoop(rs, i, compiled, totalCaptures, overallExp) ==
  IF i > Len(rs)
    THEN [thrown |-> Undefined, _rules |-> compiled, overallExp |-> overallExp]
  ELSE IF RuleFault(rs[i], i) # Undefined
    THEN [thrown |-> RuleFault(rs[i], i), _rules |-> compiled, overallExp |-> overallExp]
  ELSE
    LET rule == rs[i]
        expression == Expression(rule.pattern)
        r0 == Rule(rule.name.v, expression, rule.callback, Truthy(rule.discard))
        r1 == updateReferences(r0, totalCaptures + 1)
        r == AfterNumCaptures(r1)
    IN  CompileLoop(rs, i + 1, Append(compiled, r),
                    totalCaptures + numCaptures(r1) + 1,
                    overallExp \o ToStringJS(StringFormat("|({1})", <<Str(expression)>>)))

\* compile() without the test that the rule list is an array: the loop runs up to
\* the length property of what it was given.
compileAnyObject(rs, regexBefore) ==
  IF ~Truthy(rs) \/ (rs.t = "array" /\ Len(rs.v) = 0)
    THEN [thrown |-> ValidationError(Null, Str("no rules provided")),
          _rules |-> <<>>, _languageRegex |-> regexBefore]
    ELSE
      LET loop == CompileLoop(IF rs.t = "array" THEN rs.v ELSE <<>>, 1, <<>>, 0, <<>>)
      IN  IF loop.thrown # Undefined
            THEN [thrown |-> loop.thrown, _rules |-> loop._rules,
                  _languageRegex |-> regexBefore]
            ELSE [thrown |-> Undefined,
                  _rules |-> <<HtmlBreakRule>> \o loop._rules,
                  _languageRegex |-> RegExpOf(HtmlBreakGroup \o loop.overallExp)]

\* compile() without its first statement: the rules are pushed onto the list the
\* lexer has.
compileOntoOldRules(rs, regexBefore) ==
  LET old == IF _rules = Undefined THEN <<>> ELSE _rules
  IN  IF ~Truthy(rs) \/ rs.t # "array" \/ Len(rs.v) = 0
        THEN [thrown |-> ValidationError(Null, Str("no rules provided")),
              _rules |-> old, _languageRegex |-> regexBefore]
        ELSE
          LET loop == CompileLoop(rs.v, 1, old, 0, <<>>)
          IN  IF loop.thrown # Undefined
                THEN [thrown |-> loop.thrown, _rules |-> loop._rules,
                      _languageRegex |-> regexBefore]
                ELSE [thrown |-> Undefined,
                      _rules |-> <<HtmlBreakRule>> \o loop._rules,
                      _languageRegex |-> RegExpOf(HtmlBreakGroup \o loop.overallExp)]

\* compile(): what is thrown (Undefined when it returns), and this._rules and
\* this._languageRegex when it ends, given the composite pattern before the call.
compile(rs, regexBefore) ==
  IF ~Truthy(rs) \/ rs.t # "array" \/ Len(rs.v) = 0
    THEN [thrown |-> ValidationError(Null, Str("no rules provided")),
          _rules |-> <<>>, _languageRegex |-> regexBefore]
    ELSE
      LET loop == CompileLoop(rs.v, 1, <<>>, 0, <<>>)
      IN  IF loop.thrown # Undefined
            THEN [thrown |-> loop.thrown, _rules |-> loop._rules,
                  _languageRegex |-> regexBefore]
            ELSE [thrown |-> Undefined,
                  _rules |-> <<HtmlBreakRule>> \o loop._rules,
                  _languageRegex |-> RegExpOf(HtmlBreakGroup \o loop.overallExp)]

(***************************************************************************)
(* The regular expression engine, on the composite patterns compile() can  *)
(* build: the group (<brs*/?s*>) followed by text without metacharacters.  *)
(***************************************************************************)
\* The end of the run of the letter s that starts at position i (s* is greedy).
RECURSIVE LetterRunEnd(_, _)
LetterRunEnd(txt, i) ==
  IF i <= Len(txt) /\ txt[i] = "s" THEN LetterRunEnd(txt, i + 1) ELSE i

\* <brs*/?s*> at position i: the position after the match, 0 when there is none.
BreakGroupAt(txt, i) ==
  IF i + 2 <= Len(txt) /\ txt[i] = "<" /\ txt[i + 1] = "b" /\ txt[i + 2] = "r"
    THEN LET a == LetterRunEnd(txt, i + 3)
             b == IF a <= Len(txt) /\ txt[a] = "/" THEN a + 1 ELSE a
             c == LetterRunEnd(txt, b)
         IN  IF c <= Len(txt) /\ txt[c] = ">" THEN c + 1 ELSE 0
    ELSE 0

\* Literal text at position i.
LiteralAt(txt, i, lit) ==
  /\ i + Len(lit) - 1 <= Len(txt)
  /\ SubSeq(txt, i, i + Len(lit) - 1) = lit

\* One match of the composite pattern at position i: its end and its groups
\* (arguments[0] and arguments[1] of the replace callback), or end = 0.
RegexMatchAt(regex, txt, i) ==
  LET tail == SubSeq(regex.v, Len(HtmlBreakGroup) + 1, Len(regex.v))
      g == BreakGroupAt(txt, i)
  IN  IF g # 0 /\ LiteralAt(txt, g, tail)
        THEN [end |-> g + Len(tail),
              groups |-> <<Str(SubSeq(txt, i, g + Len(tail) - 1)), Str(SubSeq(txt, i, g - 1))>>]
        ELSE [end |-> 0, groups |-> <<>>]

\* Every match of the global pattern from position i on, left to right: each with
\* its 0-based index and its groups. After an empty match the cursor moves one on.
RECURSIVE RegexMatches(_, _, _)
RegexMatches(regex, txt, i) ==
  IF i > Len(txt) + 1 THEN <<>>
  ELSE LET m == RegexMatchAt(regex, txt, i)
       IN  IF m.end = 0 THEN RegexMatches(regex, txt, i + 1)
           ELSE <<[index |-> i - 1, groups |-> m.groups]>>
                \o RegexMatches(regex, txt, IF m.end = i THEN i + 1 ELSE m.end)

(***************************************************************************)
(* Lexer.lex.                                                              *)
(***************************************************************************)
\* new State(line, offset)
State(line, offset) == [line |-> line, offset |-> offset, updated |-> FALSE]

\* new Lexer.Token(name, content, lexState)
Token(name, content, lexState) ==
  [name |-> name, content |-> content,
   position |-> [line |-> lexState.line, column |-> lexState.offset]]

\* arguments[k] of the replace callback: the groups, then the index, then the text.
Argument(arguments, k) ==
  IF k + 1 <= Len(arguments) THEN arguments[k + 1] ELSE Undefined

\* The two loops that look for the rule whose capture took part, from rule i
\* (0-based) and slot j of it on: the rule found (0-based, -1 for null) and
\* captureIndex when the loops end.
RECURSIVE FindRule(_, _, _, _, _)
FindRule(rs, arguments, i, j, captureIndex) ==
  IF i >= Len(rs) THEN [rule |-> -1, captureIndex |-> captureIndex]
  ELSE IF j >= numCaptures(rs[i + 1]) + 1
    THEN FindRule(rs, arguments, i + 1, 0, captureIndex)
  ELSE IF Truthy(Argument(arguments, captureIndex))
    THEN [rule |-> i, captureIndex |-> captureIndex]
  ELSE FindRule(rs, arguments, i, j + 1, captureIndex + 1)

\* The rule list after the loops: every rule they visited was asked numCaptures().
AfterFindRule(rs, found) ==
  [k \in 1..Len(rs) |->
     IF found.rule = -1 \/ k <= found.rule + 1 THEN AfterNumCaptures(rs[k]) ELSE rs[k]]

\* rule.callback.call(rule, matches, lexer.state): the value returned and
\* lexer.state afterwards. HTML_BREAK is the callback compile() installs; noop is a
\* caller's function () {}; first is function (m) { return m[0]; }; relex is
\* function (m) { lexer.lex('x'); return m[0]; }, whose call of lex assigns
\* this.state = new State(1, 1) and returns at once: the composite pattern begins
\* with the line-break group and finds no match in a text without a tag.
Callback(fn, matches, lexState) ==
  CASE fn.v = "HTML_BREAK" ->
         [val |-> Null,
          state |-> [line |-> lexState.line + 1, offset |-> 1, updated |-> TRUE]]
    [] fn.v = "noop" -> [val |-> Undefined, state |-> lexState]
    [] fn.v = "first" ->
         [val |-> IF Len(matches) > 0 THEN matches[1] ELSE Undefined,
          state |-> lexState]
    [] fn.v = "relex" ->
         [val |-> IF Len(matches) > 0 THEN matches[1] ELSE Undefined,
          state |-> State(1, 1)]

\* What the callback's own calls of lex() write to the console: the time of the
\* scan it made.
CallbackLog(fn) ==
  IF fn.v = "relex" THEN <<[call |-> "time", value |-> Undefined]>> ELSE <<>>

\* val != null
NotNull(val) == val.t \notin {"null", "undefined"}

\* if (val != null): the discard flag is not looked at.
EmitsDiscarded(rule, val) == NotNull(val)

\* if (!rule.discard && val != null): the match becomes a token.
Emits(rule, val) == ~rule.discard /\ NotNull(val)

\* console.log of the skipped characters.
SkippedLog(lexState, skipped) ==
  [call |-> "skipped",
   value |-> StringFormat("{1}:{2}: skipped unexpected characters \"{3}\"",
                          <<Num(lexState.line), Num(lexState.offset), Str(skipped)>>)]

Returned(op, value) == [op |-> op, kind |-> "return", value |-> value]
Thrown(op, error) == [op |-> op, kind |-> "throw", value |-> error]

\* lex() compiling on every call, whether or not a composite pattern is there.
LazyCompileAlways == compile(rules, _languageRegex)

\* if (!this._languageRegex) { this.compile(); }
LazyCompile ==
  IF Truthy(_languageRegex)
    THEN [thrown |-> Undefined, _rules |-> _rules, _languageRegex |-> _languageRegex]
    ELSE compile(rules, _languageRegex)

(***************************************************************************)
(* The operations of a Lexer.                                              *)
(***************************************************************************)
\* lexer.compile()
Compile ==
  /\ pc = "idle"
  /\ LET c == compile(rules, _languageRegex)
     IN  /\ _rules' = c._rules
         /\ _languageRegex' = c._languageRegex
         /\ result' = IF c.thrown # Undefined THEN Thrown("compile", c.thrown)
                      ELSE Returned("compile", Undefined)
  /\ UNCHANGED <<rules, state, text, tokens, startIndex, pending, pc, console, fired>>

\* lex() that makes a scan state only when the lexer has none yet.
LexStartKeepingState(t) ==
  /\ pc = "idle"
  /\ LET c == LazyCompile
     IN  /\ _rules' = c._rules
         /\ _languageRegex' = c._languageRegex
         /\ text' = t
         /\ console' = <<>>
         /\ fired' = <<>>
         /\ IF c.thrown # Undefined
              THEN /\ result' = Thrown("lex", c.thrown)
                   /\ UNCHANGED <<state, tokens, startIndex, pending, pc>>
              ELSE /\ state' = IF state = Undefined THEN State(1, 1) ELSE state
                   /\ tokens' = <<>>
                   /\ startIndex' = 0
                   /\ pending' = RegexMatches(c._languageRegex, t, 1)
                   /\ pc' = "scanning"
                   /\ result' = [op |-> "lex", kind |-> "running", value |-> Undefined]
  /\ UNCHANGED rules

\* lexer.lex(t), up to the call of text.replace: the lazy compilation, the locals,
\* the fresh scan state, and the matches the global pattern finds in the text.
LexStart(t) ==
  /\ pc = "idle"
  /\ LET c == LazyCompile
     IN  /\ _rules' = c._rules
         /\ _languageRegex' = c._languageRegex
         /\ text' = t
         /\ console' = <<>>
         /\ fired' = <<>>
         /\ IF c.thrown # Undefined
              THEN /\ result' = Thrown("lex", c.thrown)
                   /\ UNCHANGED <<state, tokens, startIndex, pending, pc>>
              ELSE /\ state' = State(1, 1)
                   /\ tokens' = <<>>
                   /\ startIndex' = 0
                   /\ pending' = RegexMatches(c._languageRegex, t, 1)
                   /\ pc' = "scanning"
                   /\ result' = [op |-> "lex", kind |-> "running", value |-> Undefined]
  /\ UNCHANGED rules

\* The replace callback without the else branch that clears the updated flag.
LexMatchFlagKept ==
  /\ pc = "scanning"
  /\ pending # <<>>
  /\ LET m == Head(pending)
         arguments == m.groups \o <<Num(m.index), Str(text)>>
         matchIndex == arguments[Len(arguments) - 1].v
         whole == arguments[1].v
         skip == matchIndex > startIndex
         st0 == IF skip THEN [state EXCEPT !.offset = @ + (matchIndex - startIndex)]
                ELSE state
         logged == IF skip
                     THEN Append(console, SkippedLog(state, Slice(text, startIndex, matchIndex)))
                     ELSE console
         found == FindRule(_rules, arguments, 0, 0, 1)
         visited == AfterFindRule(_rules, found)
     IN  /\ _rules' = visited
         /\ IF found.rule = -1
              THEN \* rule is null: reading rule.callback throws, and lex() with it
                   /\ console' = logged
                   /\ state' = st0
                   /\ pc' = "idle"
                   /\ pending' = <<>>
                   /\ result' = Thrown("lex", [name |-> "TypeError"])
                   /\ UNCHANGED <<tokens, startIndex, fired>>
              ELSE
                LET rule == visited[found.rule + 1]
                    matches == Slice(arguments, found.captureIndex,
                                     found.captureIndex + numCaptures(rule) + 1)
                    call == IF Truthy(rule.callback)
                              THEN Callback(rule.callback, matches, st0)
                              ELSE [val |-> arguments[1], state |-> st0]
                    st1 == call.state
                IN  /\ console' = IF Truthy(rule.callback)
                                    THEN logged \o CallbackLog(rule.callback)
                                    ELSE logged
                    /\ tokens' = IF Emits(rule, call.val)
                                   THEN Append(tokens, Token(rule.name, call.val, st1))
                                   ELSE tokens
                    /\ state' = IF ~st1.updated
                                  THEN [st1 EXCEPT !.offset = @ + Len(whole)]
                                  ELSE st1
                    /\ startIndex' = matchIndex + Len(whole)
                    /\ pending' = Tail(pending)
                    /\ fired' = Append(fired,
                         [index |-> matchIndex, whole |-> whole, rule |-> found.rule,
                          name |-> rule.name, discard |-> rule.discard,
                          callback |-> rule.callback, arguments |-> arguments,
                          matches |-> matches,
                          val |-> call.val, before |-> state, at |-> st1])
                    /\ UNCHANGED <<pc, result>>
  /\ UNCHANGED <<rules, _languageRegex, text>>

\* The replace callback of lex(), for the next match.
LexMatch ==
  /\ pc = "scanning"
  /\ pending # <<>>
  /\ LET m == Head(pending)
         arguments == m.groups \o <<Num(m.index), Str(text)>>
         matchIndex == arguments[Len(arguments) - 1].v
         whole == arguments[1].v
         skip == matchIndex > startIndex
         st0 == IF skip THEN [state EXCEPT !.offset = @ + (matchIndex - startIndex)]
                ELSE state
         logged == IF skip
                     THEN Append(console, SkippedLog(state, Slice(text, startIndex, matchIndex)))
                     ELSE console
         found == FindRule(_rules, arguments, 0, 0, 1)
         visited == AfterFindRule(_rules, found)
     IN  /\ _rules' = visited
         /\ IF found.rule = -1
              THEN \* rule is null: reading rule.callback throws, and lex() with it
                   /\ console' = logged
                   /\ state' = st0
                   /\ pc' = "idle"
                   /\ pending' = <<>>
                   /\ result' = Thrown("lex", [name |-> "TypeError"])
                   /\ UNCHANGED <<tokens, startIndex, fired>>
              ELSE
                LET rule == visited[found.rule + 1]
                    matches == Slice(arguments, found.captureIndex,
                                     found.captureIndex + numCaptures(rule) + 1)
                    call == IF Truthy(rule.callback)
                              THEN Callback(rule.callback, matches, st0)
                              ELSE [val |-> arguments[1], state |-> st0]
                    st1 == call.state
                IN  /\ console' = IF Truthy(rule.callback)
                                    THEN logged \o CallbackLog(rule.callback)
                                    ELSE logged
                    /\ tokens' = IF Emits(rule, call.val)
                                   THEN Append(tokens, Token(rule.name, call.val, st1))
                                   ELSE tokens
                    /\ state' = IF ~st1.updated
                                  THEN [st1 EXCEPT !.offset = @ + Len(whole)]
                                  ELSE [st1 EXCEPT !.updated = FALSE]
                    /\ startIndex' = matchIndex + Len(whole)
                    /\ pending' = Tail(pending)
                    /\ fired' = Append(fired,
                         [index |-> matchIndex, whole |-> whole, rule |-> found.rule,
                          name |-> rule.name, discard |-> rule.discard,
                          callback |-> rule.callback, arguments |-> arguments,
                          matches |-> matches,
                          val |-> call.val, before |-> state, at |-> st1])
                    /\ UNCHANGED <<pc, result>>
  /\ UNCHANGED <<rules, _languageRegex, text>>

\* A scan that does not come back from text.replace.
LexEndNever ==
  /\ pc = "scanning"
  /\ pending = <<>>
  /\ UNCHANGED vars

\* lex() without its return statement.
LexEndNoReturn ==
  /\ pc = "scanning"
  /\ pending = <<>>
  /\ console' = Append(console, [call |-> "time", value |-> Undefined])
  /\ result' = Returned("lex", Undefined)
  /\ pc' = "idle"
  /\ UNCHANGED <<rules, _rules, _languageRegex, state, text, tokens, startIndex,
                 pending, fired>>

\* lex() after text.replace: the time is logged and the tokens are returned. The
\* text after the last match is not looked at.
LexEnd ==
  /\ pc = "scanning"
  /\ pending = <<>>
  /\ console' = Append(console, [call |-> "time", value |-> Undefined])
  /\ result' = Returned("lex", tokens)
  /\ pc' = "idle"
  /\ UNCHANGED <<rules, _rules, _languageRegex, state, text, tokens, startIndex,
                 pending, fired>>

\* The caller changes the array it gave to the constructor, between two calls.
AlterRules(items) ==
  /\ pc = "idle"
  /\ rules.t = "array"
  /\ rules' = Arr(items)
  /\ UNCHANGED <<_rules, _languageRegex, state, text, tokens, startIndex, pending,
                 pc, console, result, fired>>

(***************************************************************************)
(* The inputs: rule tables and texts.                                      *)
(***************************************************************************)
MaxRules == 2      \* rules in a generated rule table
MaxChunks == 3     \* pieces in a generated text
MaxPieces == 4     \* pieces in a generated pattern text

\* Every table of at most n rules drawn from a set of rules.
Tables(choices, n) == UNION {[1..k -> choices] : k \in 0..n}

\* lispRules and Lexer.Languages.default, the rule tables of the tests.
lispRules ==
  <<RuleSpec(Str("LPAREN"), RegExpOf(<<"\\", "(">>), Undefined, Undefined),
    RuleSpec(Str("RPAREN"), RegExpOf(<<"\\", ")">>), Undefined, Undefined),
    RuleSpec(Str("WHITESPACE"), RegExpOf(<<"\\", "s", "+">>), Undefined, Undefined),
    RuleSpec(Str("SYMBOL"), RegExpOf(<<"\\", "w", "+", "|", ".">>), Undefined, Undefined)>>

\* Well-formed rules: a plain one, one with a group, a backreference, a callback
\* and the discard flag, and one with a literal string pattern.
RuleA == RuleSpec(Str("A"), RegExpOf(<<"x">>), Undefined, Undefined)
RuleB == RuleSpec(Str("B"), RegExpOf(<<"(", "x", ")", "\\", "1">>), Fn("first"), Bool(TRUE))
RuleC == RuleSpec(Str("C"), Str(<<"(", "<">>), Fn("noop"), Bool(FALSE))

\* Malformed rules, one for each check of compile(), as the tests build them.
MalformedRules ==
  {Null,                                                           \* [null]
   Num(1),                                                         \* [1]
   Arr(<<>>),                                                      \* [[]]
   RuleSpec(Undefined, Undefined, Undefined, Undefined),           \* [{}]
   RuleSpec(Undefined, RegExpOf(<<"x">>), Undefined, Undefined),   \* no name
   RuleSpec(Null, RegExpOf(<<"x">>), Undefined, Undefined),        \* name: null
   RuleSpec(Str(""), RegExpOf(<<"x">>), Undefined, Undefined),     \* name: ''
   RuleSpec(Num(1), RegExpOf(<<"x">>), Undefined, Undefined),      \* name: 1
   RuleSpec(Str("FOO"), Undefined, Undefined, Undefined),          \* no pattern
   RuleSpec(Str("FOO"), Null, Undefined, Undefined),               \* pattern: null
   RuleSpec(Str("FOO"), Arr(<<>>), Undefined, Undefined),          \* pattern: []
   RuleSpec(Str("FOO"), Str(<<>>), Undefined, Undefined),          \* pattern: ''
   RuleSpec(Str("FOO"), RegExpOf(<<"x">>), Num(1), Undefined),     \* callback: 1
   RuleSpec(Num(1), Null, Num(1), Undefined)}                      \* all three wrong

RuleBad == RuleSpec(Str("FOO"), Undefined, Undefined, Undefined)

\* The pieces texts are made of: a line-break tag, one with a blank, the word the
\* composite pattern holds for each rule, and an ordinary character.
Chunks ==
  {<<"<", "b", "r", ">">>,
   <<"<", "b", "r", " ", "/", ">">>,
   <<"u", "n", "d", "e", "f", "i", "n", "e", "d">>,
   <<"x">>}

RECURSIVE ChunkTexts(_)
ChunkTexts(n) ==
  IF n = 0 THEN {<<>>}
  ELSE LET shorter == ChunkTexts(n - 1)
       IN  shorter \cup {t \o c : t \in shorter, c \in Chunks}

\* '(foo bar baz)' and '(foo<br>bar<br>baz)', texts of the tests.
SingleLineSnippet ==
  <<"(", "f", "o", "o", " ", "b", "a", "r", " ", "b", "a", "z", ")">>
MultipleLineSnippet ==
  <<"(", "f", "o", "o", "<", "b", "r", ">", "b", "a", "r", "<", "b", "r", ">",
    "b", "a", "z", ")">>

Texts == ChunkTexts(MaxChunks) \cup {SingleLineSnippet, MultipleLineSnippet}

RuleTables ==
  {Arr(t) : t \in Tables({RuleA, RuleB, RuleC, RuleBad}, MaxRules)}
  \cup {Arr(lispRules), Null}

(***************************************************************************)
(* Specifications.                                                         *)
(***************************************************************************)
InitWith(tables, texts) ==
  /\ rules \in tables
  /\ _rules = Undefined
  /\ _languageRegex = Undefined
  /\ state = Undefined
  /\ text \in texts
  /\ tokens = <<>>
  /\ startIndex = 0
  /\ pending = <<>>
  /\ pc = "idle"
  /\ console = <<>>
  /\ result = Returned("new", Undefined)
  /\ fired = <<>>

\* A lexer over one rule table, compiled and set to scan one text, any number of
\* times.
Init == InitWith(RuleTables, Texts)

Next ==
  \/ Compile
  \/ LexStart(text)
  \/ LexMatch
  \/ LexEnd

Spec == Init /\ [][Next]_vars

\* A lexer whose caller changes the rule array between calls.
AlterRuleSet == {RuleA, RuleB, RuleBad}

AlterTexts ==
  {<<>>,
   <<"<", "b", "r", ">", "u", "n", "d", "e", "f", "i", "n", "e", "d">>,
   <<"x", "<", "b", "r", ">", "u", "n", "d", "e", "f", "i", "n", "e", "d",
     "<", "b", "r", ">", "u", "n", "d", "e", "f", "i", "n", "e", "d", "x">>}

InitAlter == InitWith({Arr(t) : t \in Tables(AlterRuleSet, MaxRules)}, AlterTexts)

NextAlter ==
  \/ Compile
  \/ \E t \in Tables(AlterRuleSet, MaxRules) : AlterRules(t)
  \/ LexStart(text)
  \/ LexMatch
  \/ LexEnd

SpecAlter == InitAlter /\ [][NextAlter]_vars

\* A lexer over every shape of rule table, compiled or scanned with the empty text.
RuleFalsyCallback == RuleSpec(Str("FOO"), RegExpOf(<<"x">>), Num(0), Undefined)

ValidateTables ==
  {Arr(t) : t \in Tables(MalformedRules \cup {RuleA, RuleFalsyCallback}, MaxRules)}
  \cup {Null, Undefined, Num(1), RuleSpec(Undefined, Undefined, Undefined, Undefined)}

InitValidate == InitWith(ValidateTables, {<<>>})

NextValidate ==
  \/ Compile
  \/ LexStart(text)
  \/ LexEnd

SpecValidate == InitValidate /\ [][NextValidate]_vars

(***************************************************************************)
(* Properties.                                                             *)
(***************************************************************************)
LexReturned == result.op = "lex" /\ result.kind = "return"

ColumnsOf(ts) == [k \in 1..Len(ts) |-> ts[k].position.column]

PositionsOf(ts) == [k \in 1..Len(ts) |-> <<ts[k].position.line, ts[k].position.column>>]

(* C1: each token lex() returns has column 1 + the number of characters between
   the end of the latest line break (or the start of the text) and the start of
   its own match. Stated on the rule table and the text of the test 'Single Line
   Snippets': the tokens of '(foo bar baz)' start at columns 1, 2, 5, 6, 9, 10
   and 13. *)
C1_SnippetColumns ==
  (LexReturned /\ rules = Arr(lispRules) /\ text = SingleLineSnippet)
    => ColumnsOf(result.value) = <<1, 2, 5, 6, 9, 10, 13>>

(* C2: each token lex() returns has line 1 + the number of line-break tags before
   it, the first token after a tag has column 1, and no token is named
   HTML_BREAK. Stated on the rule table and the text of the test 'Multiple Line
   Snippets': the tokens of '(foo<br>bar<br>baz)' are at 1:1, 1:2, 2:1, 3:1 and
   3:4. *)
C2_SnippetLines ==
  (LexReturned /\ rules = Arr(lispRules) /\ text = MultipleLineSnippet)
    => /\ PositionsOf(result.value) = <<<<1, 1>>, <<1, 2>>, <<2, 1>>, <<3, 1>>, <<3, 4>>>>
       /\ \A k \in 1..Len(result.value) : result.value[k].name # "HTML_BREAK"

\* The content candidate of a processed match: what its callback returned, the
\* whole matched text when its rule has no callback.
Candidate(f) == IF Truthy(f.callback) THEN f.val ELSE Str(f.whole)

\* The processed matches that are to be tokens.
TokenMatches(fs) ==
  SelectSeq(fs, LAMBDA f : ~f.discard /\ Candidate(f).t \notin {"null", "undefined"})

(* C3: the tokens of a scan are, in match order, exactly the matches whose rule is
   not flagged discard and whose content candidate is not null, each with the
   name of its rule and the candidate as its content. *)
C3_TokensAreTheKeptMatches ==
  (result.op = "lex" /\ result.kind \in {"running", "return"})
    => /\ Len(tokens) = Len(TokenMatches(fired))
       /\ \A k \in 1..Len(tokens) :
            /\ tokens[k].name = TokenMatches(fired)[k].name
            /\ tokens[k].content = Candidate(TokenMatches(fired)[k])
       /\ (result.kind = "return" => result.value = tokens)

C3_Witness ==
  /\ LexReturned
  /\ Len(fired) = 2
  /\ Len(result.value) = 2

SkippedEntries == SelectSeq(console, LAMBDA e : e.call = "skipped")

(* C4: on a lexer with a valid rule table, lex("") returns the empty token
   sequence, logs no skipped text and throws nothing. *)
C4_EmptyTextNoTokens ==
  (result.op = "lex" /\ result.kind # "running" /\ text = <<>> /\ Truthy(_languageRegex))
    => /\ result = Returned("lex", <<>>)
       /\ SkippedEntries = <<>>

C4_Witness ==
  /\ result = Returned("lex", <<>>)
  /\ text = <<>>
  /\ Len(rules.v) = 2
  /\ Len(console) = 1

\* The message the skipped-text template stands for.
SkippedMessage(line, column, skipped) ==
  NumberToString(line) \o <<":">> \o NumberToString(column)
  \o <<":", " ", "s", "k", "i", "p", "p", "e", "d", " ", "u", "n", "e", "x", "p",
       "e", "c", "t", "e", "d", " ", "c", "h", "a", "r", "a", "c", "t", "e", "r",
       "s", " ", "\"">>
  \o skipped \o <<"\"">>

\* The maximal spans of the text no match covers, left to right, each with the
\* position of the scan where it starts: before match k, and after the last one.
RECURSIVE UnmatchedSpans(_, _, _, _, _)
UnmatchedSpans(txt, fs, k, from, last) ==
  IF k > Len(fs)
    THEN IF from < Len(txt)
           THEN <<[line |-> last.line, column |-> last.offset,
                   skipped |-> Slice(txt, from, Len(txt))]>>
           ELSE <<>>
    ELSE (IF fs[k].index > from
            THEN <<[line |-> fs[k].before.line, column |-> fs[k].before.offset,
                    skipped |-> Slice(txt, from, fs[k].index)]>>
            ELSE <<>>)
         \o UnmatchedSpans(txt, fs, k + 1, fs[k].index + Len(fs[k].whole), last)

(* C5: every maximal span of the text that no match covers, the one after the
   last match included, is logged once, with the skipped text and the line and
   column where it starts. *)
C5_EverySpanLogged ==
  LexReturned
    => LET spans == UnmatchedSpans(text, fired, 1, 0, state)
       IN  /\ Len(SkippedEntries) = Len(spans)
           /\ \A k \in 1..Len(spans) :
                SkippedEntries[k].value
                  = Str(SkippedMessage(spans[k].line, spans[k].column, spans[k].skipped))

CompileThrew == result.op = "compile" /\ result.kind = "throw"

\* The kinds of malformed rule: the rule itself is null; its name is missing,
\* empty or not a string; its pattern is missing, empty, or neither a string nor a
\* regular expression; its callback is present (not a falsy value) and not a
\* function.
RuleIsNull(rule) == rule.t \in {"null", "undefined"}

NameMalformed(rule) ==
  LET name == Get(rule, "name")
  IN  \/ name.t # "string"
      \/ Len(name.v) = 0

PatternMalformed(rule) ==
  LET pattern == Get(rule, "pattern")
  IN  \/ pattern.t \notin {"string", "regexp"}
      \/ Len(pattern.v) = 0

CallbackMalformed(rule) ==
  LET callback == Get(rule, "callback")
  IN  /\ callback \notin {Undefined, Null, Num(0), Bool(FALSE), Str("")}
      /\ callback.t # "function"

Malformed(rule) ==
  \/ RuleIsNull(rule)
  \/ NameMalformed(rule)
  \/ PatternMalformed(rule)
  \/ CallbackMalformed(rule)

FirstMalformed(rs) ==
  CHOOSE k \in 1..Len(rs) : Malformed(rs[k]) /\ \A j \in 1..(k - 1) : ~Malformed(rs[j])

(* C6: compiling a rule array that holds a malformed rule throws a ValidationError
   for the first such rule; its rule field is the 1-based position of the rule
   when the rule is null or its name is malformed, and the rule's name when the
   pattern or the callback is. *)
C6_ValidationErrorNamesTheRule ==
  (result.op = "compile" /\ rules.t = "array"
     /\ \E k \in 1..Len(rules.v) : Malformed(rules.v[k]))
    => LET k == FirstMalformed(rules.v)
           rule == rules.v[k]
       IN  /\ result.kind = "throw"
           /\ result.value.name = "ValidationError"
           /\ result.value.rule =
                IF RuleIsNull(rule) \/ NameMalformed(rule) THEN Num(k)
                ELSE Get(rule, "name")

C6_Witness ==
  /\ CompileThrew
  /\ rules.t = "array"
  /\ Len(rules.v) = 2
  /\ ~Malformed(rules.v[1])
  /\ CallbackMalformed(rules.v[2])
  /\ result.value.rule = Str("FOO")

(* C7: compiling with a rule table that is null, not an array, or an empty array
   throws a ValidationError whose rule is null and whose message is
   'no rules provided'. *)
C7_NoRulesProvided ==
  (result.op = "compile" /\ (rules.t # "array" \/ Len(rules.v) = 0))
    => result = Thrown("compile",
                       [name |-> "ValidationError", rule |-> Null,
                        message |-> Str("no rules provided")])

C7_Witness ==
  /\ CompileThrew
  /\ rules = Num(1)
  /\ result.value.rule = Null

(* C8: a compile that throws leaves the rule table and the composite pattern the
   lexer had compiled before as they were. *)
C8_FailedCompileKeepsCompiled ==
  [][(Truthy(_languageRegex) /\ result'.kind = "throw"
        /\ result'.value.name = "ValidationError")
       => UNCHANGED <<_rules, _languageRegex>>]_vars

\* A lexer over rule tables whose last rule has a regular expression built from up
\* to MaxPieces pieces of regular expression syntax, or one of the patterns of the
\* test 'Standard Replacements', after up to MaxRules - 1 other rules.
Pieces ==
  {<<"(">>, <<")">>, <<"(", "?", ":">>, <<"(", "?", "=">>, <<"(", "?", "!">>,
   <<"[">>, <<"]">>, <<"\\">>, <<"1">>}

RECURSIVE PieceTexts(_)
PieceTexts(n) ==
  IF n = 0 THEN {<<>>}
  ELSE PieceTexts(n - 1)
       \cup {t \o c : t \in PieceTexts(n - 1), c \in Pieces}

\* The texts a RegExp object can have as its source: every backslash escapes a
\* character, every class is closed, the parentheses outside classes balance.
RECURSIVE WellFormed(_, _, _, _)
WellFormed(s, i, depth, inClass) ==
  IF i > Len(s) THEN depth = 0 /\ ~inClass
  ELSE IF s[i] = "\\" THEN i + 1 <= Len(s) /\ WellFormed(s, i + 2, depth, inClass)
  ELSE IF inClass THEN WellFormed(s, i + 1, depth, s[i] # "]")
  ELSE IF s[i] = "[" THEN WellFormed(s, i + 1, depth, TRUE)
  ELSE IF s[i] = "(" THEN WellFormed(s, i + 1, depth + 1, FALSE)
  ELSE IF s[i] = ")" THEN depth > 0 /\ WellFormed(s, i + 1, depth - 1, FALSE)
  ELSE WellFormed(s, i + 1, depth, FALSE)

StandardReplacements ==
  {<<"(", "a", "a", "a", ")", "b", "b", "b", "\\", "1">>,
   <<"(", "a", "a", "a", ")", "(", "b", "b", "b", "(", "c", "c", "c", ")", ")",
     "\\", "1", "\\", "2", "\\", "3">>}

LeadingBackslashes ==
  {<<"(", "a", "a", "a", ")", "b", "b", "b", "\\", "\\", "\\", "1">>,
   <<"(", "a", "a", "a", ")", "(", "b", "b", "b", "(", "c", "c", "c", ")", ")",
     "\\", "\\", "\\", "\\", "1", "\\", "2">>}

InsideCharacterClasses ==
  {<<"(", "a", "a", "a", ")", "b", "b", "b", "[", "\\", "1", "]">>,
   <<"(", "a", "a", "a", ")", "b", "b", "b", "\\", "[", "\\", "1", "\\", "]">>,
   <<"(", "a", "a", "a", ")", "b", "b", "b", "[", "g", "\\", "]", "\\", "1", "]">>}

PatternTexts ==
  {t \in PieceTexts(MaxPieces) : t # <<>> /\ WellFormed(t, 1, 0, FALSE)}
  \cup StandardReplacements \cup LeadingBackslashes \cup InsideCharacterClasses

PatternTables ==
  {Arr(before \o <<RuleSpec(Str("P"), RegExpOf(t), Undefined, Undefined)>>) :
     before \in Tables({RuleA, RuleB}, MaxRules - 1), t \in PatternTexts}

InitPatterns == InitWith(PatternTables, {<<>>})

NextPatterns == Compile

SpecPatterns == InitPatterns /\ [][NextPatterns]_vars

Compiled == result = Returned("compile", Undefined)

\* Character i of a pattern text is escaped: an odd number of backslashes runs up
\* to it.
RECURSIVE BackslashesBefore(_, _)
BackslashesBefore(s, i) ==
  IF i > 1 /\ s[i - 1] = "\\" THEN 1 + BackslashesBefore(s, i - 1) ELSE 0

Escaped(s, i) == BackslashesBefore(s, i) % 2 = 1

\* Character i of a pattern text lies inside a bracketed class: a class opens at
\* an unescaped '[' outside a class and closes at the first unescaped ']' after it.
RECURSIVE InsideClass(_, _, _, _)
InsideClass(s, i, j, open) ==
  IF j = i THEN open
  ELSE IF Escaped(s, j) THEN InsideClass(s, i, j + 1, open)
  ELSE IF open THEN InsideClass(s, i, j + 1, s[j] # "]")
  ELSE InsideClass(s, i, j + 1, s[j] = "[")

InClass(s, i) == InsideClass(s, i, 1, FALSE)

\* The capturing parentheses of a pattern text.
CapturingParens(s) ==
  {i \in 1..Len(s) :
     /\ s[i] = "("
     /\ ~Escaped(s, i)
     /\ ~InClass(s, i)
     /\ ~(i + 2 <= Len(s) /\ s[i + 1] = "?" /\ s[i + 2] \in {":", "!", "="})}

\* The regular expression the caller gave as pattern k of the rule array.
PatternOf(k) == rules.v[k].pattern.v

(* C9: numCaptures() of a rule is the number of '(' in its pattern text that are
   not escaped, not inside a bracketed class and not followed by '?:', '?!' or
   '?=': of a new rule over the caller's text, and of the compiled rule over the
   text compile() left in it. *)
C9_NumCapturesCountsGroups ==
  Compiled
    => \A k \in 1..Len(rules.v) :
         /\ numCaptures(Rule("P", PatternOf(k), Undefined, FALSE))
              = Cardinality(CapturingParens(PatternOf(k)))
         /\ numCaptures(_rules[k + 1])
              = Cardinality(CapturingParens(_rules[k + 1].pattern))

C9_Witness ==
  /\ Compiled
  /\ Len(rules.v) = 2
  /\ PatternOf(2) = <<"\\", "(", "(", ")">>
  /\ numCaptures(_rules[3]) = 1

\* The backreferences of a pattern text: the backslashes that are not escaped,
\* stand outside every class and are followed by a digit.
Backreferences(s) ==
  {i \in 1..Len(s) :
     /\ s[i] = "\\"
     /\ ~Escaped(s, i)
     /\ ~InClass(s, i)
     /\ i + 1 <= Len(s)
     /\ IsDigit(s[i + 1])}

\* The number a backreference at position i names.
RECURSIVE DecimalFrom(_, _, _)
DecimalFrom(s, i, acc) ==
  IF i <= Len(s) /\ IsDigit(s[i]) THEN DecimalFrom(s, i + 1, 10 * acc + DigitVal(s[i]))
  ELSE acc

Referenced(s, i) == DecimalFrom(s, i + 1, 0)

\* The pattern text from position i on with every backreference \N rewritten to
\* \(N + shift).
RECURSIVE Renumbered(_, _, _)
Renumbered(s, i, shift) ==
  IF i > Len(s) THEN <<>>
  ELSE IF i \in Backreferences(s)
    THEN <<"\\">> \o NumberToString(Referenced(s, i) + shift)
         \o Renumbered(s, DigitRunEnd(s, i + 1), shift)
  ELSE <<s[i]>> \o Renumbered(s, i + 1, shift)

\* The groups the composite pattern reserves for the rules before rule k: one
\* around each rule and its own.
RECURSIVE GroupsBefore(_)
GroupsBefore(k) ==
  IF k = 1 THEN 0
  ELSE GroupsBefore(k - 1) + Cardinality(CapturingParens(PatternOf(k - 1))) + 1

(* C10: after compile(), the pattern text of the k-th rule of the caller is its
   own text with every backreference \N, 1 <= N <= the rule's number of groups,
   rewritten to \M, M = N + 2 + the sum over the earlier rules j of
   (numCaptures of j + 1). Stated for the rules all of whose backreferences are
   in that range. *)
C10_BackreferencesRenumbered ==
  Compiled
    => \A k \in 1..Len(rules.v) :
         (\A i \in Backreferences(PatternOf(k)) :
            /\ Referenced(PatternOf(k), i) >= 1
            /\ Referenced(PatternOf(k), i) <= Cardinality(CapturingParens(PatternOf(k))))
           => _rules[k + 1].pattern = Renumbered(PatternOf(k), 1, 2 + GroupsBefore(k))

C10_Witness ==
  /\ Compiled
  /\ Len(rules.v) = 2
  /\ rules.v[1] = RuleB
  /\ PatternOf(2) = <<"(", ")", "\\", "1">>
  /\ _rules[3].pattern = <<"(", ")", "\\", "5">>

\* The backreferences of a pattern text all name a group of the rule.
ReferencesInRange(s) ==
  \A i \in Backreferences(s) :
    /\ Referenced(s, i) >= 1
    /\ Referenced(s, i) <= Cardinality(CapturingParens(s))

\* The compiled text c from position j on is the pattern text s from position i on
\* with nothing changed but the numbers of its backreferences, and each of those
\* changed.
RECURSIVE OnlyBackreferencesChanged(_, _, _, _)
OnlyBackreferencesChanged(s, i, c, j) ==
  IF i > Len(s) THEN j > Len(c)
  ELSE IF i \in Backreferences(s)
    THEN /\ j + 1 <= Len(c)
         /\ c[j] = "\\"
         /\ IsDigit(c[j + 1])
         /\ DecimalFrom(c, j + 1, 0) # Referenced(s, i)
         /\ OnlyBackreferencesChanged(s, DigitRunEnd(s, i + 1), c, DigitRunEnd(c, j + 1))
  ELSE /\ j <= Len(c)
       /\ c[j] = s[i]
       /\ OnlyBackreferencesChanged(s, i + 1, c, j + 1)

(* C11: compile() leaves in a rule's pattern text every backslash-digit sequence
   inside a bracketed class and every digit run after an even run of backslashes
   as they were, and renumbers the digit runs after an odd run of backslashes
   outside a class, those between escaped brackets included. Stated for the rules
   whose backreferences all name a group of the rule. *)
C11_OnlyGenuineReferencesRenumbered ==
  Compiled
    => \A k \in 1..Len(rules.v) :
         ReferencesInRange(PatternOf(k))
           => OnlyBackreferencesChanged(PatternOf(k), 1, _rules[k + 1].pattern, 1)

C11_Witness ==
  /\ Compiled
  /\ Len(rules.v) = 2
  /\ rules.v[1] = RuleB
  /\ PatternOf(2) = <<"(", "a", "a", "a", ")", "(", "b", "b", "b", "(", "c", "c", "c",
                      ")", ")", "\\", "\\", "\\", "\\", "1", "\\", "2">>
  /\ _rules[3].pattern = <<"(", "a", "a", "a", ")", "(", "b", "b", "b", "(", "c", "c",
                           "c", ")", ")", "\\", "\\", "\\", "\\", "1", "\\", "6">>

\* '|(' + the compiled pattern text + ')' of the compiled rules from index k on.
RECURSIVE Alternatives(_, _)
Alternatives(rs, k) ==
  IF k > Len(rs) THEN <<>>
  ELSE <<"|", "(">> \o rs[k].pattern \o <<")">> \o Alternatives(rs, k + 1)

(* C12: after compile(), the text of the composite pattern is '(' + the pattern
   text of the HTML_BREAK rule + ')' followed, for each rule of the caller in
   order, by '|(' + the compiled pattern text of the rule + ')'. *)
C12_CompositeIsTheAlternation ==
  Compiled
    => _languageRegex.v = <<"(">> \o _rules[1].pattern \o <<")">> \o Alternatives(_rules, 2)

\* The regular expression metacharacters.
Metacharacters == {"-", ".", "*", "+", "?", "^", "$", "(", ")", "[", "]", "{", "}", "\\"}

\* A literal string with a backslash before each of its metacharacters.
RECURSIVE Backslashed(_)
Backslashed(str) ==
  IF str = <<>> THEN <<>>
  ELSE (IF Head(str) \in Metacharacters THEN <<"\\", Head(str)>> ELSE <<Head(str)>>)
       \o Backslashed(Tail(str))

(* C13: for a rule whose pattern is a literal string, the pattern text compile()
   produces is the string with a backslash before each regular expression
   metacharacter and every other character unchanged. *)
C13_LiteralIsEscaped ==
  Compiled
    => \A k \in 1..Len(rules.v) :
         rules.v[k].pattern.t = "string"
           => _rules[k + 1].pattern = Backslashed(rules.v[k].pattern.v)

\* The index, among the arguments of the replace callback, of the group the
\* composite pattern wraps around compiled rule r (0 is HTML_BREAK): the groups of
\* the rules before it come first.
RECURSIVE WrappingGroup(_)
WrappingGroup(r) ==
  IF r = 0 THEN 1
  ELSE WrappingGroup(r - 1) + numCaptures(_rules[r]) + 1

\* Arguments from..to of a processed match, as JavaScript counts them.
ArgumentsOf(f, from, to) == [k \in 1..(to - from + 1) |-> f.arguments[from + k]]

\* The processed matches whose rule has a callback.
CallbackMatches == {k \in 1..Len(fired) : Truthy(fired[k].callback)}

(* C14, as claimed: the capture list a callback is given holds the sub-captures of
   its own rule, numCaptures of them, without the text of the group wrapped around
   the rule. *)
C14_CapturesWithoutWrappingGroup ==
  \A k \in CallbackMatches :
    LET f == fired[k]
        g == WrappingGroup(f.rule)
    IN  f.matches = ArgumentsOf(f, g + 1, g + numCaptures(_rules[f.rule + 1]))

(* C14, amended: the capture list a callback is given is, as String.match gives
   it, the text of the group wrapped around its rule followed by the sub-captures
   of the rule: numCaptures + 1 values, none of another rule. *)
C14_CapturesAfterWrappingGroup ==
  \A k \in CallbackMatches :
    LET f == fired[k]
        g == WrappingGroup(f.rule)
    IN  f.matches = ArgumentsOf(f, g, g + numCaptures(_rules[f.rule + 1]))

C14_Witness ==
  /\ LexReturned
  /\ Len(fired) = 1
  /\ fired[1].name = "HTML_BREAK"
  /\ fired[1].matches = <<Str(<<"<", "b", "r", ">">>)>>
  /\ fired[1].whole # fired[1].matches[1].v

\* A lexer that is given one text after another, while its caller changes the
\* rule array between calls.
NextScans ==
  \/ Compile
  \/ \E t \in Tables(AlterRuleSet, MaxRules) : AlterRules(t)
  \/ \E t \in AlterTexts : LexStart(t)
  \/ LexMatch
  \/ LexEnd

SpecScans == InitAlter /\ [][NextScans]_vars

\* What a scan gives that starts from a new scan state, an empty token list and
\* index 0: the outcome of lex() over the matches still to come.
RECURSIVE ScanOutcome(_, _, _, _, _, _)
ScanOutcome(rs, txt, matches, lexState, toks, start) ==
  IF matches = <<>> THEN Returned("lex", toks)
  ELSE
    LET m == Head(matches)
        arguments == m.groups \o <<Num(m.index), Str(txt)>>
        st0 == IF m.index > start
                 THEN [lexState EXCEPT !.offset = @ + (m.index - start)]
                 ELSE lexState
        found == FindRule(rs, arguments, 0, 0, 1)
    IN  IF found.rule = -1 THEN Thrown("lex", [name |-> "TypeError"])
        ELSE
          LET rule == rs[found.rule + 1]
              matched == Slice(arguments, found.captureIndex,
                               found.captureIndex + numCaptures(rule) + 1)
              call == IF Truthy(rule.callback)
                        THEN Callback(rule.callback, matched, st0)
                        ELSE [val |-> arguments[1], state |-> st0]
              st1 == call.state
          IN  ScanOutcome(rs, txt, Tail(matches),
                          IF ~st1.updated THEN [st1 EXCEPT !.offset = @ + Len(m.groups[1].v)]
                          ELSE [st1 EXCEPT !.updated = FALSE],
                          IF ~rule.discard /\ NotNull(call.val)
                            THEN Append(toks, Token(rule.name, call.val, st1))
                            ELSE toks,
                          m.index + Len(m.groups[1].v))

LexFinished ==
  /\ result.op = "lex"
  /\ \/ result.kind = "return"
     \/ result.kind = "throw" /\ result.value.name = "TypeError"

(* C15: what lex(text) gives depends on the compiled lexer and the text alone,
   whatever scans the lexer made before: each scan starts at line 1, column 1
   with the updated flag off, and its outcome is the one of a scan from a new
   scan state. *)
C15_ScanStartsAfresh ==
  /\ (pc = "scanning" /\ fired = <<>>)
       => state = [line |-> 1, offset |-> 1, updated |-> FALSE]
  /\ LexFinished
       => result = ScanOutcome(_rules, text, RegexMatches(_languageRegex, text, 1),
                               [line |-> 1, offset |-> 1, updated |-> FALSE], <<>>, 0)

\* A scan of the empty text has returned on a lexer whose HTML_BREAK rule an
\* earlier scan has fired.
C15_Witness ==
  /\ LexReturned
  /\ text = <<>>
  /\ Len(_rules) = 2
  /\ _rules[1].name = "HTML_BREAK"
  /\ _rules[1]._numCaptures = Num(0)
  /\ state = [line |-> 1, offset |-> 1, updated |-> FALSE]

\* The compiled rule list holds HTML_BREAK once, first and flagged discard, and
\* then one rule for each rule of the caller, in the caller's order.
OneRulePerCallerRule ==
  /\ Len(_rules) = Len(rules.v) + 1
  /\ _rules[1].name = "HTML_BREAK"
  /\ _rules[1].discard = TRUE
  /\ \A k \in 1..Len(rules.v) :
       /\ _rules[k + 1].name = rules.v[k].name.v
       /\ _rules[k + 1].name # "HTML_BREAK"
       /\ _rules[k + 1].callback = rules.v[k].callback
       /\ _rules[k + 1].discard = Truthy(rules.v[k].discard)

(* C16: every successful compile() of a rule table leaves HTML_BREAK once, at
   index 0 and flagged discard, followed by one compiled rule for each rule of the
   caller in order; and a successful compile() after another leaves the composite
   pattern and the compiled rule list as they were. *)
C16_CompileIsIdempotent ==
  [][/\ Compiled' => OneRulePerCallerRule'
     /\ (Compiled /\ Compiled') => UNCHANGED <<_rules, _languageRegex>>]_vars

\* compile() has succeeded on a lexer that had been compiled before and has
\* scanned up to line 2 since.
C16_Witness ==
  /\ Compiled
  /\ state = [line |-> 2, offset |-> 1, updated |-> FALSE]
  /\ Len(_rules) = 3
  /\ _rules[1]._numCaptures = Undefined

\* A lexer made by makeLexer, whose rules may hold one that can match the empty
\* text, with the calls of the replace callback and the return of lex() bound to
\* happen: text.replace goes through the matches of the text and returns.
RuleEmpty == RuleSpec(Str("E"), RegExpOf(<<"x", "*">>), Undefined, Undefined)

\* makeLexer(rules)(): a new lexer, compiled.
makeLexer(tables, texts) ==
  /\ rules \in tables
  /\ LET c == compile(rules, Undefined)
     IN  /\ _rules = c._rules
         /\ _languageRegex = c._languageRegex
  /\ state = Undefined
  /\ text \in texts
  /\ tokens = <<>>
  /\ startIndex = 0
  /\ pending = <<>>
  /\ pc = "idle"
  /\ console = <<>>
  /\ result = Returned("compile", Undefined)
  /\ fired = <<>>

InitLive ==
  makeLexer({Arr(t) : t \in Tables({RuleA, RuleEmpty}, MaxRules)} \ {Arr(<<>>)},
            AlterTexts \cup ChunkTexts(MaxChunks - 1))

\* The variables every step of a scan changes: its place and the matches to come.
progress == <<pc, pending>>

\* The compiled lexer scans its text, any number of times.
NextLive ==
  \/ LexStart(text)
  \/ LexMatch
  \/ LexEnd

SpecLive == InitLive /\ [][NextLive]_vars /\ WF_progress(LexMatch) /\ WF_progress(LexEnd)

(* C17: lex(text) on a lexer with a valid rule table, one with a rule that can
   match the empty text included, comes to an end and returns its tokens. *)
C17_ScanReturns == (pc = "scanning") ~> (pc = "idle" /\ LexReturned /\ result.value = tokens)

C17_Witness ==
  /\ LexReturned
  /\ rules.v = <<RuleEmpty>>
  /\ Len(fired) = 2
  /\ result.value = <<>>

(* C18: for every match of the composite pattern the walk over the groups of the
   rules finds a rule, so that none is missing when its callback is looked at,
   and the rule found is the one whose group took part in the match: HTML_BREAK
   for the first group of the composite pattern. *)
C18_WalkFindsTheRule ==
  /\ ~(result.op = "lex" /\ result.kind = "throw" /\ result.value.name = "TypeError")
  /\ \A k \in 1..Len(fired) :
       Truthy(Argument(fired[k].arguments, 1)) => fired[k].name = "HTML_BREAK"

\* The scan state after processed match k: the one the next match starts from.
StateAfter(k) == IF k < Len(fired) THEN fired[k + 1].before ELSE state

(* C19: the updated flag of the scan state is off when the processing of a match
   starts; when the callback of the match has set it, the column is left where
   the callback put it and the flag is off again for the next match; when it has
   not, the column has advanced by the length of the whole match. *)
C19_UpdatedFlagClearedEachMatch ==
  (result.op = "lex" /\ result.kind \in {"running", "return"})
    => \A k \in 1..Len(fired) :
         LET f == fired[k]
         IN  /\ ~f.before.updated
             /\ ~StateAfter(k).updated
             /\ StateAfter(k).line = f.at.line
             /\ StateAfter(k).offset =
                  IF f.at.updated THEN f.at.offset ELSE f.at.offset + Len(f.whole)

C19_Witness ==
  /\ pc = "scanning"
  /\ Len(fired) = 1
  /\ fired[1].at.updated
  /\ state = [line |-> 2, offset |-> 1, updated |-> FALSE]

\* A pattern text with one group, put in the place of a rule's text to see whether
\* numCaptures() reads the text again.
OtherText == <<"(", ")">>

(* C20: once compile() has asked a rule for numCaptures(), the count is stored,
   whatever it is, 0 included, and every later call gives the stored count
   without reading the pattern text again: it gives the same count whatever the
   pattern text has become. *)
C20_NumCapturesIsStored ==
  Compiled
    => \A k \in 2..Len(_rules) :
         /\ _rules[k]._numCaptures # Undefined
         /\ numCaptures(_rules[k]) = _rules[k]._numCaptures.v
         /\ numCaptures([_rules[k] EXCEPT !.pattern = OtherText]) = _rules[k]._numCaptures.v

\* The backreference at position i of a pattern text names a group of the rule.
NamesGroup(s, i) ==
  /\ Referenced(s, i) >= 1
  /\ Referenced(s, i) <= Cardinality(CapturingParens(s))

\* The compiled text c from position j on is the pattern text s from position i on
\* with every backslash-digit sequence that names no group of the rule kept as it
\* was, backslash and digits, and nothing else changed but the numbers of the
\* backreferences that name a group.
RECURSIVE OctalEscapesKept(_, _, _, _)
OctalEscapesKept(s, i, c, j) ==
  IF i > Len(s) THEN j > Len(c)
  ELSE IF i \in Backreferences(s) /\ NamesGroup(s, i)
    THEN /\ j + 1 <= Len(c)
         /\ c[j] = "\\"
         /\ IsDigit(c[j + 1])
         /\ OctalEscapesKept(s, DigitRunEnd(s, i + 1), c, DigitRunEnd(c, j + 1))
  ELSE IF i \in Backreferences(s)
    THEN LET n == DigitRunEnd(s, i + 1) - i
         IN  /\ j + n - 1 <= Len(c)
             /\ SubSeq(c, j, j + n - 1) = SubSeq(s, i, i + n - 1)
             /\ OctalEscapesKept(s, i + n, c, j + n)
  ELSE /\ j <= Len(c)
       /\ c[j] = s[i]
       /\ OctalEscapesKept(s, i + 1, c, j + 1)

(* C21: after compile(), a backslash-digit sequence \N outside a class whose N is
   0 or above the rule's number of groups stands in the rule's pattern text as it
   was, backslash and digits, so that it still is the octal escape of the
   character with code N; compile() has not failed on it. *)
C21_OutOfRangeKeptAsOctalEscape ==
  Compiled
    => \A k \in 1..Len(rules.v) :
         OctalEscapesKept(PatternOf(k), 1, _rules[k + 1].pattern, 1)

\* What a compiled rule list shows: for each position, the rule's name, pattern
\* text, discard flag and the count numCaptures() gives.
CompiledRules(rs) ==
  [k \in 1..Len(rs) |->
     [name |-> rs[k].name, pattern |-> rs[k].pattern, discard |-> rs[k].discard,
      numCaptures |-> numCaptures(rs[k])]]

\* A step of lex() on a lexer that has its composite pattern: the scan begins,
\* handles a match or returns.
ScanStep == Truthy(_languageRegex) /\ (pc = "scanning" \/ pc' = "scanning")

(* C22: every step of lex(text) on a compiled lexer leaves the composite pattern
   as it was and, at every position of the compiled rule list, the same rule with
   the same name, pattern text, discard flag and capture count, for every text and
   through any number of scans one after the other. *)
C22_ScanLeavesCompiledState ==
  [][ScanStep => /\ _languageRegex' = _languageRegex
                 /\ CompiledRules(_rules') = CompiledRules(_rules)]_vars

C22_Witness ==
  /\ pc = "idle"
  /\ LexReturned
  /\ Len(fired) = 1
  /\ Len(_rules) = 2
  /\ _rules[1]._numCaptures = Num(0)
  /\ _rules[2].name = "A"
  /\ rules.v = <<RuleB, RuleBad>>

\* A lexer whose caller has a rule with a callback that scans another text on the
\* same lexer, and changes the rule array between calls.
RuleRelex == RuleSpec(Str("R"), RegExpOf(<<"x">>), Fn("relex"), Undefined)

ReenterRuleSet == {RuleA, RuleRelex, RuleBad}

InitReenter == InitWith({Arr(t) : t \in Tables(ReenterRuleSet, MaxRules)}, AlterTexts)

NextReenter ==
  \/ Compile
  \/ \E t \in Tables(ReenterRuleSet, MaxRules) : AlterRules(t)
  \/ \E t \in AlterTexts : LexStart(t)
  \/ LexMatch
  \/ LexEnd

SpecReenter == InitReenter /\ [][NextReenter]_vars

\* The compiled rules with, in the place of every callback that calls lex(), the
\* callback that returns the same value without the call.
WithoutReentry(rs) ==
  [k \in 1..Len(rs) |->
     IF rs[k].callback = Fn("relex") THEN [rs[k] EXCEPT !.callback = Fn("first")]
     ELSE rs[k]]

(* C23: when a rule callback calls lex() on the lexer whose scan is in progress,
   the tokens that scan emits from then on have the line and column they would
   have had without the call: the positions of the tokens lex() returns are those
   of the same scan with callbacks that return the same values and call nothing. *)
C23_ReentrantScanKeepsPositions ==
  LexReturned
    => PositionsOf(tokens)
         = PositionsOf(ScanOutcome(WithoutReentry(_rules), text,
                                   RegexMatches(_languageRegex, text, 1),
                                   State(1, 1), <<>>, 0).value)

====
